---- MODULE Spec2Model ----
(***************************************************************************)
(* Model of kenku-file-watcher: the event queue drained by a timer, the    *)
(* path classifier, the remote calls it dispatches and the startup modes   *)
(* of the driver (src/src/index.ts), together with the earlier entry point *)
(* kept in the repository (src/unnamed/part_000).                          *)
(*                                                                         *)
(* A JavaScript string is modelled as a sequence of one-character strings, *)
(* so that match, includes, replace, slice, trim and encodeURI are         *)
(* computed character by character.                                        *)
(***************************************************************************)
EXTENDS Integers, Sequences, FiniteSets, TLC

VARIABLES
    entry,          \* which entry point runs: "index" or "part_000"
    argv,           \* parsed command line
    pc,             \* position of the driver
    ACTIVATED,      \* the activation gate
    timerStarted,   \* setInterval has been called
    watcherOn,      \* the chokidar callbacks are subscribed
    readyAt,        \* number of events delivered when 'ready' fired, -1 before
    queue,          \* pending events, head first
    delivered,      \* history: every event pushed by a watcher callback
    dequeued,       \* history: every event shifted by the worker, with the gate
    calls,          \* every remote call issued, with its status
    lists,          \* purge/view: the responses of the two listing calls
    idx,            \* purge: position in the list being removed
    fnArg,          \* pure-function harness: the argument
    fnRes           \* pure-function harness: the results

vars == <<entry, argv, pc, ACTIVATED, timerStarted, watcherOn, readyAt, queue,
          delivered, dequeued, calls, lists, idx, fnArg, fnRes>>

(***************************************************************************)
(* Bounds of the model.                                                    *)
(***************************************************************************)
MaxEvents == 2

MaxRemote == 2

MaxLen == 4

(***************************************************************************)
(* Strings.                                                                *)
(***************************************************************************)
Lower == {"a","b","c","d","e","f","g","h","i","j","k","l","m",
          "n","o","p","q","r","s","t","u","v","w","x","y","z"}

Upper == {"A","B","C","D","E","F","G","H","I","J","K","L","M",
          "N","O","P","Q","R","S","T","U","V","W","X","Y","Z"}

Digit == {"0","1","2","3","4","5","6","7","8","9"}

\* The characters U+0020 .. U+002E, in code-point order.
SpaceToDot == {" ","!","\"","#","$","%","&","'","(",")","*","+",",","-","."}

\* '[a-zA-Z0-9 -]+': a trailing '-' in a class is a literal hyphen.
folderRegex == Lower \cup Upper \cup Digit \cup {" ", "-"}

\* '[a-zA-Z0-9 -\\.]+' is the pattern [a-zA-Z0-9 -\.]+ : inside the class
\* ' -\.' is the range from ' ' to '.'.
fileRegex == Lower \cup Upper \cup Digit \cup SpaceToDot

\* The empty string; also stands for undefined where the code only tests
\* truthiness (!x, x || d, a && x), for which '' and undefined agree.
Undefined == <<>>

Truthy(s) == s # Undefined

OrElse(s, d) == IF Truthy(s) THEN s ELSE d

Slash == <<"/">>

DEFAULT_PLAYLIST_DIR == <<"P","l","a","y","l","i","s","t","s">>

DEFAULT_SOUNDBOARDS_DIR == <<"S","o","u","n","d","b","o","a","r","d","s">>

Min(a, b) == IF a < b THEN a ELSE b

Max(a, b) == IF a > b THEN a ELSE b

\* s.slice(a, b) with JavaScript's 0-based, end-exclusive, negative-from-end
\* indices.
Slice(s, a, b) ==
    LET n    == Len(s)
        from == IF a < 0 THEN Max(n + a, 0) ELSE Min(a, n)
        to   == IF b < 0 THEN Max(n + b, 0) ELSE Min(b, n)
    IN  IF from >= to THEN <<>> ELSE SubSeq(s, from + 1, to)

\* sub occurs in s at 0-based position i.
OccursAt(s, sub, i) ==
    /\ i >= 0
    /\ i + Len(sub) <= Len(s)
    /\ \A k \in 1..Len(sub) : s[i + k] = sub[k]

\* s.indexOf(sub): the first 0-based position, -1 when there is none.
IndexOf(s, sub) ==
    LET hits == {i \in 0..Len(s) : OccursAt(s, sub, i)}
    IN  IF hits = {} THEN -1 ELSE CHOOSE i \in hits : \A j \in hits : i <= j

\* s.includes(sub)
Includes(s, sub) == IndexOf(s, sub) # -1

\* s.replace(pat, '') with a string pattern: only the first occurrence goes.
ReplaceFirst(s, pat) ==
    LET i == IndexOf(s, pat)
    IN  IF i = -1 THEN s
        ELSE SubSeq(s, 1, i) \o SubSeq(s, i + Len(pat) + 1, Len(s))

\* s.trim(), the only white space of the model's alphabet being ' '.
Trim(s) ==
    LET keep == {i \in 1..Len(s) : s[i] # " "}
    IN  IF keep = {} THEN <<>>
        ELSE SubSeq(s, CHOOSE i \in keep : \A j \in keep : i <= j,
                       CHOOSE i \in keep : \A j \in keep : i >= j)

RECURSIVE Flatten(_)
Flatten(ss) == IF ss = <<>> THEN <<>> ELSE Head(ss) \o Flatten(Tail(ss))

\* encodeURI leaves letters, digits and ; , / ? : @ & = + $ - _ . ! ~ * ' ( ) #
\* alone and percent-encodes the rest.
EncodeChar(c) ==
    CASE c = " "  -> <<"%","2","0">>
      [] c = "\"" -> <<"%","2","2">>
      [] c = "%"  -> <<"%","2","5">>
      [] OTHER    -> <<c>>

EncodeURI(s) == Flatten([i \in 1..Len(s) |-> EncodeChar(s[i])])

prepareFilePath(path) == <<"f","i","l","e",":","/","/">> \o EncodeURI(path)

\* Mutant: every trailing '/' is stripped.
RECURSIVE cleanUrlAll(_)
cleanUrlAll(path) ==
    IF Len(path) = 0 \/ path[Len(path)] # "/"
    THEN path
    ELSE cleanUrlAll(SubSeq(path, 1, Len(path) - 1))

cleanUrl(path) ==
    IF Len(path) = 0 \/ path[Len(path)] # "/"
    THEN path
    ELSE Slice(path, 0, Len(path) - 1)

(***************************************************************************)
(* PathClassifier.  The patterns are built by interpolating the configured *)
(* names into a regular expression; the roots and directory names of the   *)
(* model hold letters, digits and '/' only, which a regular expression     *)
(* matches literally.                                                      *)
(***************************************************************************)
AllIn(s, class) == \A i \in 1..Len(s) : s[i] \in class

\* ^${root}/(${playlists}|${soundboards})/ : the text after the first
\* alternative, in the pattern's order, that lets the whole pattern match.
DirPrefix(directories, d) == directories.root \o Slash \o d \o Slash

AfterPrefix(directories, d, path) ==
    SubSeq(path, Len(DirPrefix(directories, d)) + 1, Len(path))

Alternatives(directories) ==
    << OrElse(directories.playlists, DEFAULT_PLAYLIST_DIR),
       OrElse(directories.soundboards, DEFAULT_SOUNDBOARDS_DIR) >>

\* (${folderRegex})$
MatchFolder(rest) == Len(rest) > 0 /\ AllIn(rest, folderRegex)

\* ${folderRegex}/(${fileRegex})$ : the position of the separating '/'.
FileSplits(rest) ==
    {k \in 1..Len(rest) :
        /\ rest[k] = "/"
        /\ k > 1
        /\ k < Len(rest)
        /\ AllIn(SubSeq(rest, 1, k - 1), folderRegex)
        /\ AllIn(SubSeq(rest, k + 1, Len(rest)), fileRegex)}

validateDirectory(directories, path) ==
    LET alts == Alternatives(directories)
        ok   == {n \in 1..2 :
                    /\ OccursAt(path, DirPrefix(directories, alts[n]), 0)
                    /\ MatchFolder(AfterPrefix(directories, alts[n], path))}
    IN  IF ok = {} THEN Undefined
        ELSE AfterPrefix(directories,
                         alts[CHOOSE n \in ok : \A m \in ok : n <= m], path)

validateFile(directories, path) ==
    LET alts == Alternatives(directories)
        ok   == {n \in 1..2 :
                    /\ OccursAt(path, DirPrefix(directories, alts[n]), 0)
                    /\ FileSplits(AfterPrefix(directories, alts[n], path)) # {}}
    IN  IF ok = {} THEN Undefined
        ELSE LET rest == AfterPrefix(directories,
                             alts[CHOOSE n \in ok : \A m \in ok : n <= m], path)
                 k    == CHOOSE k \in FileSplits(rest) : TRUE
             IN  SubSeq(rest, k + 1, Len(rest))

UnknownTitle == <<"U","n","k","n","o","w","n","T","i","t","l","e">>

\* src/src/index.ts
removeFileType(fileName) ==
    LET clean == IF Includes(fileName, <<".">>)
                 THEN Slice(Trim(fileName), 0, IndexOf(fileName, <<".">>))
                 ELSE Trim(fileName)
    IN  IF Len(Trim(clean)) = 0 THEN UnknownTitle ELSE clean

\* src/unnamed/part_000
removeFileTypeOld(fileName) == Slice(fileName, 0, IndexOf(fileName, <<".">>))

Title(ver, fileName) ==
    IF ver = "index" THEN removeFileType(fileName) ELSE removeFileTypeOld(fileName)

(***************************************************************************)
(* EventQueue: what one dequeued event dispatches.  Each operator returns  *)
(* the sequence of requests issued (none or one).                          *)
(***************************************************************************)
\* Mutant: the gate is not consulted.
GuardWithoutGate(activated, name) == Truthy(name)

\* Mutant: the validated name is not consulted.
GuardGateOnly(activated, name) == activated

\* if (ACTIVATED && name)
Guard(activated, name) == activated /\ Truthy(name)

\* path.includes(directories.playlists || DEFAULT_PLAYLIST_DIR)
IsPlaylistBranch(directories, path) ==
    Includes(path, OrElse(directories.playlists, DEFAULT_PLAYLIST_DIR))

CaseAdd(ver, activated, directories, path) ==
    LET fileToAdd == validateFile(directories, path)
    IN  IF ~Guard(activated, fileToAdd) THEN <<>>
        ELSE IF IsPlaylistBranch(directories, path)
        THEN << [op   |-> "addTrack",
                 body |-> [title       |-> Title(ver, fileToAdd),
                           url         |-> cleanUrl(prepareFilePath(path)),
                           playlistUrl |-> cleanUrl(ReplaceFirst(path, fileToAdd))]] >>
        ELSE << [op   |-> "addSound",
                 body |-> [title         |-> Title(ver, fileToAdd),
                           url           |-> cleanUrl(prepareFilePath(path)),
                           soundboardUrl |-> cleanUrl(ReplaceFirst(path, fileToAdd)),
                           fadeIn        |-> 500,
                           fadeOut       |-> 500,
                           loop          |-> TRUE,
                           volume        |-> 100]] >>

CaseAddDir(activated, directories, path) ==
    LET dirToAdd == validateDirectory(directories, path)
    IN  IF ~Guard(activated, dirToAdd) THEN <<>>
        ELSE IF IsPlaylistBranch(directories, path)
        THEN << [op   |-> "addPlaylist",
                 body |-> [title |-> dirToAdd, url |-> cleanUrl(path)]] >>
        ELSE << [op   |-> "addSoundboard",
                 body |-> [title |-> dirToAdd, url |-> cleanUrl(path)]] >>

CaseUnlink(activated, directories, path) ==
    LET file == validateFile(directories, path)
    IN  IF ~Guard(activated, file) THEN <<>>
        ELSE IF IsPlaylistBranch(directories, path)
        THEN << [op   |-> "removeTrack",
                 body |-> [trackUrl    |-> cleanUrl(prepareFilePath(path)),
                           playlistUrl |-> cleanUrl(ReplaceFirst(path, file))]] >>
        ELSE << [op   |-> "removeSound",
                 body |-> [soundUrl      |-> cleanUrl(prepareFilePath(path)),
                           soundboardUrl |-> cleanUrl(ReplaceFirst(path, file))]] >>

CaseUnlinkDir(activated, directories, path) ==
    LET dir == validateDirectory(directories, path)
    IN  IF ~Guard(activated, dir) THEN <<>>
        ELSE IF IsPlaylistBranch(directories, path)
        THEN << [op |-> "removePlaylist", body |-> [url |-> cleanUrl(path)]] >>
        ELSE << [op |-> "removeSoundboard", body |-> [url |-> cleanUrl(path)]] >>

\* Mutant: the file cases and the directory cases are wired to each other.
DispatchMiswired(ver, activated, directories, event) ==
    CASE event.action = "addDir"    -> CaseAdd(ver, activated, directories, event.path)
      [] event.action = "add"       -> CaseAddDir(activated, directories, event.path)
      [] event.action = "unlinkDir" -> CaseUnlink(activated, directories, event.path)
      [] event.action = "unlink"    -> CaseUnlinkDir(activated, directories, event.path)

\* switch (event.action)
Dispatch(ver, activated, directories, event) ==
    CASE event.action = "add"       -> CaseAdd(ver, activated, directories, event.path)
      [] event.action = "addDir"    -> CaseAddDir(activated, directories, event.path)
      [] event.action = "unlink"    -> CaseUnlink(activated, directories, event.path)
      [] event.action = "unlinkDir" -> CaseUnlinkDir(activated, directories, event.path)

(***************************************************************************)
(* The inputs of the model.                                                *)
(***************************************************************************)
Root == <<"/","r">>

Jz == <<"J","z">>

PlaylistDirPath == Root \o Slash \o DEFAULT_PLAYLIST_DIR \o Slash \o Jz

TrackPath == PlaylistDirPath \o Slash \o <<"s"," ","1",".","m","p","3">>

\* The paths the watcher reports in the runs of the model: a playlist
\* directory and a track in it, each with every event kind.  The classifier
\* is run on the wider TestPaths below.
Paths == {PlaylistDirPath, TrackPath}

Actions == {"add", "addDir", "unlink", "unlinkDir"}

\* The urls the remote service lists in the model.
RemoteUrls == {<<"u","1">>, <<"u","2">>}

RemoteLists == UNION {[1..n -> [url : RemoteUrls]] : n \in 0..MaxRemote}

ValidActions == {"purge", "backfill", "watch", "view"}

\* argv as yargs parses it; "" and Undefined stand for an absent option.
ArgvOf(e) ==
    IF e = "index"
    THEN [action : ValidActions \cup {"", "bogus"}, rootDir : {Undefined, Root},
          backfill : {FALSE}, playlistsDir : {Undefined}, soundboardsDir : {Undefined}]
    ELSE [action : {""}, rootDir : {Undefined, Root},
          backfill : BOOLEAN, playlistsDir : {Undefined}, soundboardsDir : {Undefined}]

Directories(a) ==
    [root |-> a.rootDir, playlists |-> a.playlistsDir, soundboards |-> a.soundboardsDir]

\* A wider set of paths for the classifier: every directory name, collection
\* name and item name below at the two depths of the layout, and paths of the
\* wrong depth, with a trailing '/' and with a prefix before the root.
RECURSIVE Join(_)
Join(segs) ==
    IF Len(segs) = 0 THEN <<>>
    ELSE IF Len(segs) = 1 THEN Head(segs)
    ELSE Head(segs) \o Slash \o Join(Tail(segs))

TestDirNames == {DEFAULT_PLAYLIST_DIR, DEFAULT_SOUNDBOARDS_DIR, <<"O","t","h","e","r">>}

TestCollections == {Jz, <<"J"," ","-","9">>, <<"J",".","z">>, <<"J","_","z">>,
                    DEFAULT_PLAYLIST_DIR}

TestItems == {<<"s"," ","1",".","m","p","3">>, <<"a","+","b",".","m","p","3">>,
              <<"a">>, <<".","m","p","3">>, <<" ","a",".","b">>,
              <<"a",".","b",".","c">>, <<"a","_","b">>, <<" ">>}

TestPaths ==
    {Join(<<Root, d, c>>) : d \in TestDirNames, c \in TestCollections}
    \cup {Join(<<Root, d, c, i>>) : d \in TestDirNames, c \in TestCollections,
                                    i \in TestItems}
    \cup {Root, Join(<<Root, DEFAULT_PLAYLIST_DIR>>),
          Join(<<Root, DEFAULT_PLAYLIST_DIR, Jz, Jz, <<"a">>>>),
          Join(<<Root, DEFAULT_PLAYLIST_DIR, Jz>>) \o Slash,
          <<"/","x">> \o Join(<<Root, DEFAULT_PLAYLIST_DIR, Jz>>)}

\* Dispatch is tabulated over the inputs of the model, so that a tick looks
\* its requests up.
WatchedDirectories == {Directories(a) : a \in {b \in ArgvOf("index") : Truthy(b.rootDir)}}

DispatchTable ==
    [ver \in {"index", "part_000"}, activated \in BOOLEAN,
     directories \in WatchedDirectories, action \in Actions,
     path \in Paths \cup TestPaths |->
        Dispatch(ver, activated, directories, [action |-> action, path |-> path])]

(***************************************************************************)
(* State after the module is loaded and argv is parsed.                    *)
(***************************************************************************)
Init ==
    /\ entry \in {"index", "part_000"}
    /\ argv \in ArgvOf(entry)
    /\ pc = "start"
    /\ ACTIVATED = FALSE
    /\ timerStarted = FALSE
    /\ watcherOn = FALSE
    /\ readyAt = -1
    /\ queue = <<>>
    /\ delivered = <<>>
    /\ dequeued = <<>>
    /\ calls = <<>>
    /\ lists = [playlists |-> <<>>, soundboards |-> <<>>]
    /\ idx = 0
    /\ fnArg = <<>>
    /\ fnRes = <<>>

\* A remote call that has been issued and not yet settled; ev is the number of
\* the queue event it was dispatched for, 0 for a call awaited by the driver.
Issued(req, ev) == [op |-> req.op, body |-> req.body, ev |-> ev, status |-> "pending"]

Settle(cs, i, outcome) == [cs EXCEPT ![i].status = outcome]

(***************************************************************************)
(* watch(backfill, directories, kenkuConfig)                               *)
(***************************************************************************)
\* Mutant: the gate starts false whatever the mode.
WatchGateClosed(backfill) ==
    /\ ACTIVATED' = FALSE
    /\ timerStarted' = TRUE
    /\ watcherOn' = TRUE
    /\ pc' = "watching"

Watch(backfill) ==
    /\ ACTIVATED' = backfill
    /\ timerStarted' = TRUE
    /\ watcherOn' = TRUE
    /\ pc' = "watching"

\* queue.push(event)
Push(q, event) == Append(q, event)

\* Mutant: queue.pop(), the newest event first.
ShiftFromTail(q) == [event |-> q[Len(q)], rest |-> SubSeq(q, 1, Len(q) - 1)]

\* Mutant: the tick takes the head and drops the event behind it as well.
ShiftTwo(q) == [event |-> Head(q), rest |-> IF Len(q) > 1 THEN Tail(Tail(q)) ELSE <<>>]

\* queue.shift()
Shift(q) == [event |-> Head(q), rest |-> Tail(q)]

\* Mutant: 'ready' flips the gate.
WatcherReadyFlips ==
    /\ pc = "watching"
    /\ watcherOn
    /\ readyAt = -1
    /\ ACTIVATED' = ~ACTIVATED
    /\ readyAt' = Len(delivered)
    /\ UNCHANGED <<entry, argv, pc, timerStarted, watcherOn, queue, delivered,
                   dequeued, calls, lists, idx, fnArg, fnRes>>

\* .on('ready', ...): chokidar emits 'ready' once.
WatcherReady ==
    /\ pc = "watching"
    /\ watcherOn
    /\ readyAt = -1
    /\ ACTIVATED' = TRUE
    /\ readyAt' = Len(delivered)
    /\ UNCHANGED <<entry, argv, pc, timerStarted, watcherOn, queue, delivered,
                   dequeued, calls, lists, idx, fnArg, fnRes>>

\* .on('add' | 'addDir' | 'unlink' | 'unlinkDir', (path) => queue.push(...));
\* id numbers the events in delivery order.
Deliver ==
    /\ pc = "watching"
    /\ watcherOn
    /\ Len(delivered) < MaxEvents
    /\ \E action \in Actions, path \in Paths :
          LET event == [action |-> action, path |-> path, id |-> Len(delivered) + 1]
          IN  /\ queue' = Push(queue, event)
              /\ delivered' = Append(delivered, event)
    /\ UNCHANGED <<entry, argv, pc, ACTIVATED, timerStarted, watcherOn, readyAt,
                   dequeued, calls, lists, idx, fnArg, fnRes>>

\* Mutant: the tick does nothing while a call it dispatched is in flight.
HandleQueueAwaits ==
    /\ pc = "watching"
    /\ timerStarted
    /\ \A i \in 1..Len(calls) : calls[i].status # "pending"
    /\ IF Len(queue) # 0
       THEN LET s    == Shift(queue)
                reqs == DispatchTable[entry, ACTIVATED, Directories(argv),
                                      s.event.action, s.event.path]
            IN  /\ queue' = s.rest
                /\ dequeued' = Append(dequeued, [event |-> s.event, gate |-> ACTIVATED])
                /\ calls' = calls \o [k \in 1..Len(reqs) |-> Issued(reqs[k], s.event.id)]
       ELSE UNCHANGED <<queue, dequeued, calls>>
    /\ UNCHANGED <<entry, argv, pc, ACTIVATED, timerStarted, watcherOn, readyAt,
                   delivered, lists, idx, fnArg, fnRes>>

\* One firing of the interval timer: handleQueue(directories, kenkuConfig).
HandleQueue ==
    /\ pc = "watching"
    /\ timerStarted
    /\ IF Len(queue) # 0
       THEN LET s    == Shift(queue)
                reqs == DispatchTable[entry, ACTIVATED, Directories(argv),
                                      s.event.action, s.event.path]
            IN  /\ queue' = s.rest
                /\ dequeued' = Append(dequeued, [event |-> s.event, gate |-> ACTIVATED])
                /\ calls' = calls \o [k \in 1..Len(reqs) |-> Issued(reqs[k], s.event.id)]
       ELSE UNCHANGED <<queue, dequeued, calls>>
    /\ UNCHANGED <<entry, argv, pc, ACTIVATED, timerStarted, watcherOn, readyAt,
                   delivered, lists, idx, fnArg, fnRes>>

\* Mutant: a rejected call puts its event back on the queue.
CatchRequeue(q, event) == Append(q, event)

\* Mutant: a rejected call puts its event back at the head of the queue.
CatchRetryFirst(q, event) == <<event>> \o q

\* .catch(console.log): what a rejected worker call leaves of the queue.
CatchLog(q, event) == q

\* A call dispatched by the worker settles: callKenku returns the data, or
\* throws (status >= 400, transport error) and the rejection is logged.
WorkerCallSettles ==
    /\ \E i \in 1..Len(calls), outcome \in {"ok", "failed"} :
          /\ calls[i].ev > 0
          /\ calls[i].status = "pending"
          /\ calls' = Settle(calls, i, outcome)
          /\ queue' = IF outcome = "failed"
                      THEN CatchLog(queue, delivered[calls[i].ev])
                      ELSE queue
    /\ UNCHANGED <<entry, argv, pc, ACTIVATED, timerStarted, watcherOn, readyAt,
                   delivered, dequeued, lists, idx, fnArg, fnRes>>

(***************************************************************************)
(* driver() of src/src/index.ts, up to its first suspension point.         *)
(***************************************************************************)
ListPlaylistsReq == [op |-> "listPlaylists", body |-> Undefined]

ListSoundboardsReq == [op |-> "listSoundboards", body |-> Undefined]

Driver ==
    /\ entry = "index"
    /\ pc = "start"
    /\ IF argv.action \notin ValidActions
       THEN \* throw Error(`Invalid action: ...`)
            /\ pc' = "failed"
            /\ UNCHANGED <<ACTIVATED, timerStarted, watcherOn, calls>>
       ELSE IF argv.action \in {"view", "purge"}
       THEN \* await listPlaylists(kenkuConfig)
            /\ calls' = Append(calls, Issued(ListPlaylistsReq, 0))
            /\ pc' = "listPlaylists"
            /\ UNCHANGED <<ACTIVATED, timerStarted, watcherOn>>
       ELSE IF ~Truthy(argv.rootDir)
       THEN \* throw Error('Missing rootDir!')
            /\ pc' = "failed"
            /\ UNCHANGED <<ACTIVATED, timerStarted, watcherOn, calls>>
       ELSE /\ Watch(argv.action = "backfill")
            /\ UNCHANGED calls
    /\ UNCHANGED <<entry, argv, readyAt, queue, delivered, dequeued, lists, idx,
                   fnArg, fnRes>>

(***************************************************************************)
(* The top level of src/unnamed/part_000: watch(argv.backfill, ...) with   *)
(* no check of argv.  setInterval runs before chokidar.watch, which throws *)
(* a TypeError for a path that is not a string.                            *)
(***************************************************************************)
MainOld ==
    /\ entry = "part_000"
    /\ pc = "start"
    /\ ACTIVATED' = argv.backfill
    /\ timerStarted' = TRUE
    /\ IF Truthy(argv.rootDir)
       THEN watcherOn' = TRUE /\ pc' = "watching"
       ELSE watcherOn' = FALSE /\ pc' = "failed"
    /\ UNCHANGED <<entry, argv, readyAt, queue, delivered, dequeued, calls, lists,
                   idx, fnArg, fnRes>>

(***************************************************************************)
(* view and purge.  listPlaylists and listSoundboards are imported from    *)
(* ./kenku; a listing call resolves to {playlists: [{url}]} or             *)
(* {soundboards: [{url}]}, or rejects.                                     *)
(***************************************************************************)
ListPlaylistsResponses == RemoteLists

ListSoundboardsResponses == RemoteLists

\* The awaited call is the last one issued.
Awaited == Len(calls)

\* A rejected await inside driver(): the error reaches driver().catch(console.log).
Rejects ==
    /\ pc \in {"listPlaylists", "listSoundboards", "removePlaylist", "removeSoundboard"}
    /\ calls[Awaited].status = "pending"
    /\ calls' = Settle(calls, Awaited, "failed")
    /\ pc' = "failed"
    /\ UNCHANGED <<entry, argv, ACTIVATED, timerStarted, watcherOn, readyAt, queue,
                   delivered, dequeued, lists, idx, fnArg, fnRes>>

\* listPlaylists resolves; the next statement awaits listSoundboards.
ListPlaylistsReturns ==
    /\ pc = "listPlaylists"
    /\ \E r \in ListPlaylistsResponses :
          lists' = [lists EXCEPT !.playlists = r]
    /\ calls' = Append(Settle(calls, Awaited, "ok"), Issued(ListSoundboardsReq, 0))
    /\ pc' = "listSoundboards"
    /\ UNCHANGED <<entry, argv, ACTIVATED, timerStarted, watcherOn, readyAt, queue,
                   delivered, dequeued, idx, fnArg, fnRes>>

\* Mutant: the removals are all issued together and the last one is awaited.
PurgeFromAllAtOnce(cs, ls, list, i) ==
    LET all == [k \in 1..Len(ls.playlists) |->
                   Issued([op |-> "removePlaylist",
                           body |-> [url |-> ls.playlists[k].url]], 0)]
               \o [k \in 1..Len(ls.soundboards) |->
                   Issued([op |-> "removeSoundboard",
                           body |-> [url |-> ls.soundboards[k].url]], 0)]
    IN  IF list = "playlists" /\ i = 1 /\ all # <<>>
        THEN [calls |-> cs \o all, pc |-> "removeSoundboard",
              idx |-> Len(ls.soundboards)]
        ELSE [calls |-> cs, pc |-> "done", idx |-> i]

\* Mutant: the loops stop one entry short.
PurgeFromOneShort(cs, ls, list, i) ==
    IF list = "playlists" /\ i < Len(ls.playlists)
    THEN [calls |-> Append(cs, Issued([op |-> "removePlaylist",
                                       body |-> [url |-> ls.playlists[i].url]], 0)),
          pc |-> "removePlaylist", idx |-> i]
    ELSE LET j == IF list = "playlists" THEN 1 ELSE i
         IN  IF j < Len(ls.soundboards)
             THEN [calls |-> Append(cs, Issued([op |-> "removeSoundboard",
                                       body |-> [url |-> ls.soundboards[j].url]], 0)),
                   pc |-> "removeSoundboard", idx |-> j]
             ELSE [calls |-> cs, pc |-> "done", idx |-> j]

\* The statements of purge from one suspension point to the next: the for
\* loops issue one removal per listed entry, playlists first.
PurgeFrom(cs, ls, list, i) ==
    IF list = "playlists" /\ i <= Len(ls.playlists)
    THEN [calls |-> Append(cs, Issued([op |-> "removePlaylist",
                                       body |-> [url |-> ls.playlists[i].url]], 0)),
          pc |-> "removePlaylist", idx |-> i]
    ELSE LET j == IF list = "playlists" THEN 1 ELSE i
         IN  IF j <= Len(ls.soundboards)
             THEN [calls |-> Append(cs, Issued([op |-> "removeSoundboard",
                                       body |-> [url |-> ls.soundboards[j].url]], 0)),
                   pc |-> "removeSoundboard", idx |-> j]
             ELSE [calls |-> cs, pc |-> "done", idx |-> j]

\* listSoundboards resolves: view prints and returns, purge starts removing.
ListSoundboardsReturns ==
    /\ pc = "listSoundboards"
    /\ \E r \in ListSoundboardsResponses :
          LET ls   == [lists EXCEPT !.soundboards = r]
              next == PurgeFrom(Settle(calls, Awaited, "ok"), ls, "playlists", 1)
          IN  /\ lists' = ls
              /\ IF argv.action = "view"
                 THEN /\ calls' = Settle(calls, Awaited, "ok")
                      /\ pc' = "done"
                      /\ UNCHANGED idx
                 ELSE /\ calls' = next.calls
                      /\ pc' = next.pc
                      /\ idx' = next.idx
    /\ UNCHANGED <<entry, argv, ACTIVATED, timerStarted, watcherOn, readyAt, queue,
                   delivered, dequeued, fnArg, fnRes>>

\* await removePlaylist / removeSoundboard resolves; next is await delay(500).
RemovalReturns ==
    /\ pc \in {"removePlaylist", "removeSoundboard"}
    /\ calls[Awaited].status = "pending"
    /\ calls' = Settle(calls, Awaited, "ok")
    /\ pc' = IF pc = "removePlaylist" THEN "delayPlaylist" ELSE "delaySoundboard"
    /\ UNCHANGED <<entry, argv, ACTIVATED, timerStarted, watcherOn, readyAt, queue,
                   delivered, dequeued, lists, idx, fnArg, fnRes>>

\* The delay elapses: the loop goes on to its next entry, or purge returns.
DelayElapses ==
    /\ pc \in {"delayPlaylist", "delaySoundboard"}
    /\ LET next == PurgeFrom(calls, lists,
                       IF pc = "delayPlaylist" THEN "playlists" ELSE "soundboards",
                       idx + 1)
       IN  /\ calls' = next.calls
           /\ pc' = next.pc
           /\ idx' = next.idx
    /\ UNCHANGED <<entry, argv, ACTIVATED, timerStarted, watcherOn, readyAt, queue,
                   delivered, dequeued, lists, fnArg, fnRes>>

Next ==
    \/ Driver
    \/ MainOld
    \/ WatcherReady
    \/ Deliver
    \/ HandleQueue
    \/ WorkerCallSettles
    \/ Rejects
    \/ ListPlaylistsReturns
    \/ ListSoundboardsReturns
    \/ RemovalReturns
    \/ DelayElapses

Spec == Init /\ [][Next]_vars

\* The interval timer keeps firing while the process runs.
FairSpec == Spec /\ WF_vars(HandleQueue)

(***************************************************************************)
(* The backfill runs alone (--action backfill of index.ts, --backfill of   *)
(* part_000), with the timer firing.                                       *)
(***************************************************************************)
IsBackfill == IF entry = "index" THEN argv.action = "backfill" ELSE argv.backfill

InitBackfill == Init /\ IsBackfill /\ Truthy(argv.rootDir)

NextBackfill ==
    \/ Driver
    \/ MainOld
    \/ WatcherReady
    \/ Deliver
    \/ HandleQueue
    \/ WorkerCallSettles

BackfillSpec == InitBackfill /\ [][NextBackfill]_vars /\ WF_vars(HandleQueue)

(***************************************************************************)
(* The classifier on a wider set of paths: the state of a watch or         *)
(* backfill run in which the watcher has delivered one event, for every    *)
(* event kind and every path of TestPaths, and the steps that follow.      *)
(***************************************************************************)
InitClassify ==
    /\ entry \in {"index", "part_000"}
    /\ argv \in {a \in ArgvOf(entry) : a.rootDir = Root /\ a.action \in {"", "watch", "backfill"}}
    /\ pc = "watching"
    /\ readyAt \in {-1, 0}
    /\ ACTIVATED = (IsBackfill \/ readyAt = 0)
    /\ timerStarted = TRUE
    /\ watcherOn = TRUE
    /\ \E action \in Actions, path \in TestPaths :
          /\ queue = <<[action |-> action, path |-> path, id |-> 1]>>
          /\ delivered = queue
    /\ dequeued = <<>>
    /\ calls = <<>>
    /\ lists = [playlists |-> <<>>, soundboards |-> <<>>]
    /\ idx = 0
    /\ fnArg = <<>>
    /\ fnRes = <<>>

NextClassify ==
    \/ WatcherReady
    \/ HandleQueue
    \/ WorkerCallSettles

ClassifySpec == InitClassify /\ [][NextClassify]_vars

(***************************************************************************)
(* cleanUrl on every string of at most MaxLen characters of UrlChars.      *)
(***************************************************************************)
UrlChars == {"/", "a", "%"}

Strings(chars, n) == UNION {[1..k -> chars] : k \in 0..n}

InitCleanUrl ==
    /\ entry = "index"
    /\ argv \in {a \in ArgvOf(entry) : a.rootDir = Root /\ a.action = "watch"}
    /\ pc = "cleanUrl"
    /\ ACTIVATED = FALSE
    /\ timerStarted = FALSE
    /\ watcherOn = FALSE
    /\ readyAt = -1
    /\ queue = <<>>
    /\ delivered = <<>>
    /\ dequeued = <<>>
    /\ calls = <<>>
    /\ lists = [playlists |-> <<>>, soundboards |-> <<>>]
    /\ idx = 0
    /\ fnArg \in Strings(UrlChars, MaxLen)
    /\ fnRes = <<>>

\* fnRes is << cleanUrl(x), cleanUrl(cleanUrl(x)) >>.
ApplyCleanUrl ==
    /\ pc = "cleanUrl"
    /\ Len(fnRes) < 2
    /\ fnRes' = Append(fnRes, cleanUrl(IF Len(fnRes) = 0 THEN fnArg ELSE fnRes[1]))
    /\ UNCHANGED <<entry, argv, pc, ACTIVATED, timerStarted, watcherOn, readyAt,
                   queue, delivered, dequeued, calls, lists, idx, fnArg>>

CleanUrlSpec == InitCleanUrl /\ [][ApplyCleanUrl]_vars

(***************************************************************************)
(* Properties.                                                             *)
(***************************************************************************)
WorkerCalls == {i \in 1..Len(calls) : calls[i].ev > 0}

CallsFor(id) == {i \in 1..Len(calls) : calls[i].ev = id}

\* The event's path is accepted by the validator its event kind uses.
Applicable(event) ==
    IF event.action \in {"add", "unlink"}
    THEN Truthy(validateFile(Directories(argv), event.path))
    ELSE Truthy(validateDirectory(Directories(argv), event.path))

\* C1: a tick that runs while the gate is false dispatches no remote call:
\* every event dequeued with the gate false has no call, and every call of
\* the worker belongs to an event dequeued with the gate true.
C1_NoCallWhileGateFalse ==
    /\ \A j \in 1..Len(dequeued) :
          ~dequeued[j].gate => CallsFor(dequeued[j].event.id) = {}
    /\ \A i \in WorkerCalls :
          \E j \in 1..Len(dequeued) :
              dequeued[j].event.id = calls[i].ev /\ dequeued[j].gate

\* An applicable event has been dequeued with the gate false, another with
\* the gate true.
C1_Witness ==
    /\ \E j \in 1..Len(dequeued) : ~dequeued[j].gate /\ Applicable(dequeued[j].event)
    /\ \E j \in 1..Len(dequeued) : dequeued[j].gate /\ Applicable(dequeued[j].event)

\* C2: in watch-only mode no event delivered before 'ready' results in a
\* remote call, also when it is dequeued after the gate has flipped.
C2_PreReadyEventsNeverCall ==
    (pc = "watching" /\ ~IsBackfill) =>
        \A i \in WorkerCalls : readyAt # -1 /\ calls[i].ev > readyAt

\* C3: events are dequeued in the order they were enqueued, and the calls
\* dispatched follow the order of the events they belong to.
C3_Fifo ==
    /\ [j \in 1..Len(dequeued) |-> dequeued[j].event]
          = SubSeq(delivered, 1, Len(dequeued))
    /\ queue = SubSeq(delivered, Len(dequeued) + 1, Len(delivered))
    /\ \A i, k \in WorkerCalls : i < k => calls[i].ev < calls[k].ev

\* Two different events have been dequeued and both have dispatched a call.
C3_Witness ==
    /\ Len(dequeued) >= 2
    /\ dequeued[1].event.path # dequeued[2].event.path
    /\ CallsFor(1) # {}
    /\ CallsFor(2) # {}

OpsOf(action) ==
    CASE action = "add"       -> {"addTrack", "addSound"}
      [] action = "unlink"    -> {"removeTrack", "removeSound"}
      [] action = "addDir"    -> {"addPlaylist", "addSoundboard"}
      [] action = "unlinkDir" -> {"removePlaylist", "removeSoundboard"}

\* C4: an applicable event dequeued with the gate true dispatches exactly one
\* call, and the operation of every dispatched call is one of the two that
\* belong to the kind of its event.
C4_OneCallOfTheEventKind ==
    /\ \A j \in 1..Len(dequeued) :
          (dequeued[j].gate /\ Applicable(dequeued[j].event))
              => Cardinality(CallsFor(dequeued[j].event.id)) = 1
    /\ \A i \in WorkerCalls : calls[i].op \in OpsOf(delivered[calls[i].ev].action)

\* A directory-removed event under the soundboards directory has been
\* dequeued with the gate true and its call has been dispatched.
C4_Witness ==
    /\ Len(dequeued) = 1
    /\ dequeued[1].gate
    /\ dequeued[1].event.action = "unlinkDir"
    /\ Applicable(dequeued[1].event)
    /\ \E i \in WorkerCalls : calls[i].op = "removeSoundboard"

\* The add call an add event under the playlists directory stands for.
UnderPlaylists(path) ==
    OccursAt(path, Root \o Slash \o DEFAULT_PLAYLIST_DIR \o Slash, 0)

ExpectedAddOp(event) ==
    IF event.action = "addDir"
    THEN IF UnderPlaylists(event.path) THEN "addPlaylist" ELSE "addSoundboard"
    ELSE IF UnderPlaylists(event.path) THEN "addTrack" ELSE "addSound"

AddEventAt(n) ==
    /\ pc = "watching"
    /\ IsBackfill
    /\ Len(delivered) >= n
    /\ delivered[n].action \in {"add", "addDir"}
    /\ Applicable(delivered[n])

AddCallFor(n) ==
    \E i \in CallsFor(n) : calls[i].op = ExpectedAddOp(delivered[n])

\* C5: in backfill mode, while the timer keeps firing, every directory-added
\* event for a playlist directory and every file-added event for a track
\* eventually has its addPlaylist or addTrack call issued, whether 'ready'
\* arrives before or after the queue is drained.
C5_BackfillAddsEverything ==
    \A n \in 1..MaxEvents : AddEventAt(n) ~> AddCallFor(n)

\* A backfill run has issued addPlaylist and addTrack for the events of the
\* scan and drained its queue before 'ready' has arrived.
C5_Witness ==
    /\ pc = "watching"
    /\ IsBackfill
    /\ readyAt = -1
    /\ queue = <<>>
    /\ \E i \in WorkerCalls : calls[i].op = "addPlaylist"
    /\ \E i \in WorkerCalls : calls[i].op = "addTrack"

Removals ==
    LET rs == SelectSeq(calls, LAMBDA c : c.op \in {"removePlaylist", "removeSoundboard"})
    IN  [i \in 1..Len(rs) |-> <<rs[i].op, rs[i].body.url>>]

ExpectedRemovals ==
    [i \in 1..Len(lists.playlists) |-> <<"removePlaylist", lists.playlists[i].url>>]
    \o [i \in 1..Len(lists.soundboards) |-> <<"removeSoundboard", lists.soundboards[i].url>>]

BothListed ==
    /\ Len(calls) >= 2
    /\ calls[1].status = "ok"
    /\ calls[2].status = "ok"

PurgeTerminated == argv.action = "purge" /\ pc \in {"done", "failed"} /\ BothListed

C7_FailureIsDropped ==
    [][(\E i \in WorkerCalls : calls[i].status = "pending" /\ calls'[i].status = "failed")
          => /\ queue' = queue
             /\ dequeued' = dequeued
             /\ delivered' = delivered
             /\ Len(calls') = Len(calls)
             /\ pc' = "watching"
             /\ timerStarted']_vars

\* A call has failed and the worker has since dispatched the call of a later
\* event.
C7_Witness ==
    \E i, k \in WorkerCalls :
        /\ calls[i].status = "failed"
        /\ calls[k].ev > calls[i].ev
        /\ queue = <<>>

\* The grammar as the claim words it: a collection of letters, digits, spaces
\* and hyphens; an item of the same characters and dots.
ClaimedItemChars == Lower \cup Upper \cup Digit \cup {" ", "-", "."}

InClaimedGrammar(event) ==
    \E d \in {DEFAULT_PLAYLIST_DIR, DEFAULT_SOUNDBOARDS_DIR} :
        LET prefix == Root \o Slash \o d \o Slash
            rest   == SubSeq(event.path, Len(prefix) + 1, Len(event.path))
        IN  /\ OccursAt(event.path, prefix, 0)
            /\ IF event.action \in {"addDir", "unlinkDir"}
               THEN Len(rest) > 0 /\ AllIn(rest, folderRegex)
               ELSE \E k \in 2..(Len(rest) - 1) :
                       /\ rest[k] = "/"
                       /\ AllIn(SubSeq(rest, 1, k - 1), folderRegex)
                       /\ AllIn(SubSeq(rest, k + 1, Len(rest)), ClaimedItemChars)

\* C8: an event whose path does not match the grammar of its kind is not
\* applicable and dispatches no remote call.
C8_OutsideGrammarNoCall ==
    \A j \in 1..Len(dequeued) :
        ~InClaimedGrammar(dequeued[j].event) =>
            /\ ~Applicable(dequeued[j].event)
            /\ CallsFor(dequeued[j].event.id) = {}

\* The configuration the driver must reject: no rootDir for a run that
\* watches, or an action that is missing or unknown.
InvalidConfiguration ==
    IF entry = "index"
    THEN \/ argv.action \notin ValidActions
         \/ argv.action \in {"watch", "backfill"} /\ ~Truthy(argv.rootDir)
    ELSE ~Truthy(argv.rootDir)

\* C9: with an invalid configuration no timer is started, no watcher is
\* subscribed and no remote call is issued.
C9_FailsFast ==
    InvalidConfiguration => (~timerStarted /\ ~watcherOn /\ calls = <<>>)

EndsWith(s, suffix) ==
    Len(s) >= Len(suffix) /\ OccursAt(s, suffix, Len(s) - Len(suffix))

\* C10 as stated: cleanUrl(cleanUrl(x)) = cleanUrl(x) for every x, and
\* cleanUrl(x) is x or x without its last character, a '/'.
C10_Idempotent ==
    /\ Len(fnRes) >= 1 => (fnRes[1] = fnArg \/ fnRes[1] \o Slash = fnArg)
    /\ Len(fnRes) = 2 => fnRes[2] = fnRes[1]

\* C10 as amended: cleanUrl(x) is x when x does not end in '/', and x without
\* that one '/' when it does; cleanUrl(cleanUrl(x)) = cleanUrl(x) for every
\* x that does not end in '//'.
C10_StripsOneSlash ==
    /\ Len(fnRes) >= 1 =>
          IF EndsWith(fnArg, Slash)
          THEN fnRes[1] \o Slash = fnArg
          ELSE fnRes[1] = fnArg
    /\ (Len(fnRes) = 2 /\ ~EndsWith(fnArg, <<"/", "/">>)) => fnRes[2] = fnRes[1]

\* cleanUrl has been applied twice to a string ending in exactly one '/'.
C10_Witness ==
    /\ Len(fnRes) = 2
    /\ Len(fnArg) >= 2
    /\ EndsWith(fnArg, Slash)
    /\ ~EndsWith(fnArg, <<"/", "/">>)
    /\ fnRes[1] # fnArg

\* The title as the claim words it: the final path segment with everything
\* from its first '.' onward removed, or the placeholder when that is empty or
\* whitespace only.
LastSegment(path) ==
    LET slashes == {i \in 1..Len(path) : path[i] = "/"}
    IN  IF slashes = {} THEN path
        ELSE SubSeq(path, (CHOOSE i \in slashes : \A k \in slashes : k <= i) + 1,
                    Len(path))

ClaimedTitle(path) ==
    LET seg  == LastSegment(path)
        dots == {i \in 1..Len(seg) : seg[i] = "."}
        cut  == IF dots = {} THEN seg
                ELSE SubSeq(seg, 1, (CHOOSE i \in dots : \A k \in dots : i <= k) - 1)
    IN  IF Trim(cut) = <<>> THEN UnknownTitle ELSE cut

AddItemCalls == {i \in WorkerCalls : calls[i].op \in {"addTrack", "addSound"}}

\* C11: the title of every add-track and add-sound call is the final segment
\* of the event's path cut at its first '.', or UnknownTitle when the cut
\* leaves nothing but whitespace; the title is never empty.
C11_TitleIsNameBeforeFirstDot ==
    \A i \in AddItemCalls :
        /\ calls[i].body.title = ClaimedTitle(delivered[calls[i].ev].path)
        /\ calls[i].body.title # <<>>

\* C12: whether a dequeued event produces a call depends on the gate at the
\* tick that dequeues it only: an event has a call exactly when the gate was
\* true at that tick and its path is applicable, whatever the gate was when
\* the event was enqueued.
C12_CallIffGateAtDequeue ==
    \A j \in 1..Len(dequeued) :
        (CallsFor(dequeued[j].event.id) # {})
            <=> (dequeued[j].gate /\ Applicable(dequeued[j].event))

\* In a watch run an applicable event enqueued while the gate was false has
\* been dequeued after 'ready' and has its call; another applicable event was
\* dequeued with the gate false and has none.
C12_Witness ==
    /\ ~IsBackfill
    /\ readyAt >= 1
    /\ \E j \in 1..Len(dequeued) :
          /\ dequeued[j].event.id <= readyAt
          /\ dequeued[j].gate
          /\ Applicable(dequeued[j].event)
          /\ CallsFor(dequeued[j].event.id) # {}
    /\ \E j \in 1..Len(dequeued) :
          /\ ~dequeued[j].gate
          /\ Applicable(dequeued[j].event)
          /\ CallsFor(dequeued[j].event.id) = {}

\* C13: a tick with a non-empty queue removes exactly the head of the queue
\* and dispatches at most one call, for the event it removed; the event is
\* removed whether or not a call was dispatched.  Nothing but a tick shortens
\* the queue or adds a call of the worker, and with the queue empty a step
\* that is not a delivery leaves it empty and dequeues nothing.
C13_TickRemovesHeadOnly ==
    [][/\ (dequeued' # dequeued) =>
             /\ queue # <<>>
             /\ dequeued' = Append(dequeued, [event |-> Head(queue), gate |-> ACTIVATED])
             /\ queue' = Tail(queue)
             /\ Len(calls') - Len(calls) \in {0, 1}
             /\ SubSeq(calls', 1, Len(calls)) = calls
             /\ \A i \in (Len(calls) + 1)..Len(calls') : calls'[i].ev = Head(queue).id
       /\ (Len(queue') < Len(queue)) => dequeued' # dequeued
       /\ (\E i \in 1..Len(calls') : i > Len(calls) /\ calls'[i].ev > 0)
             => dequeued' # dequeued
       /\ (queue = <<>> /\ delivered' = delivered) =>
             (queue' = <<>> /\ dequeued' = dequeued)]_vars

\* Two ticks have emptied a queue of two events: the first event was removed
\* without a call, the second with one.
C13_Witness ==
    /\ Len(dequeued) = 2
    /\ queue = <<>>
    /\ CallsFor(dequeued[1].event.id) = {}
    /\ Cardinality(CallsFor(dequeued[2].event.id)) = 1
    /\ Len(calls) = 1

\* The number of times event n is in the queue, and in the dequeue history.
TimesQueued(n) == Cardinality({k \in 1..Len(queue) : queue[k].id = n})

TimesDequeued(n) == Cardinality({j \in 1..Len(dequeued) : dequeued[j].event.id = n})

EachEventOnce ==
    \A n \in 1..Len(delivered) : TimesQueued(n) + TimesDequeued(n) = 1

\* C14: every event pushed by a watcher callback is in the queue once or has
\* been dequeued once, never both, and what has been dequeued stays dequeued;
\* with the events delivered being finitely many and the timer firing, the
\* queue eventually is empty for good, every delivered event dequeued once.
C14_DequeuedOnceAndDrained ==
    /\ [][EachEventOnce' /\ SubSeq(dequeued', 1, Len(dequeued)) = dequeued]_vars
    /\ <>[](queue = <<>> /\ \A n \in 1..Len(delivered) : TimesDequeued(n) = 1)

\* Every event the watcher could deliver has been delivered and dequeued, a
\* call of one of them has failed, and the queue is empty.
C14_Witness ==
    /\ Len(delivered) = MaxEvents
    /\ Len(dequeued) = MaxEvents
    /\ queue = <<>>
    /\ \E i \in WorkerCalls : calls[i].status = "failed"
    /\ \E j \in 1..Len(dequeued) : CallsFor(dequeued[j].event.id) = {}

\* The calls of the worker that have not settled.
InFlight == {i \in WorkerCalls : calls[i].status = "pending"}

\* Event n has been dequeued, and dispatched if it was applicable with the
\* gate true.
Handled(n) ==
    \E j \in 1..Len(dequeued) :
        /\ dequeued[j].event.id = n
        /\ (dequeued[j].gate /\ Applicable(dequeued[j].event)) => CallsFor(n) # {}

\* C15: the worker does not wait for the calls it dispatched.  A tick settles
\* no call; and, nothing obliging a call ever to complete, once a call of the
\* worker is in flight the queue is still emptied as the timer goes on firing,
\* every delivered event dequeued and dispatched when applicable.
C15_WorkerNeverWaits ==
    /\ [][(dequeued' # dequeued) =>
             \A i \in 1..Len(calls) : calls'[i].status = calls[i].status]_vars
    /\ (InFlight # {}) ~> (queue = <<>> /\ \A n \in 1..Len(delivered) : Handled(n))

\* Two calls dispatched by the worker for two different events are in flight
\* at once: the second was dispatched while the first had not settled.
C15_Witness ==
    \E i, k \in InFlight :
        /\ calls[i].ev < calls[k].ev
        /\ queue = <<>>

\* The removal calls of purge, by their position in calls.
PurgeRemovalsIn(cs) ==
    {i \in 1..Len(cs) :
        cs[i].ev = 0 /\ cs[i].op \in {"removePlaylist", "removeSoundboard"}}

PurgeSerialized ==
    LET rem == PurgeRemovalsIn(calls)
    IN  /\ Cardinality({i \in rem : calls[i].status = "pending"}) <= 1
        /\ \A i, k \in rem :
              (calls[i].op = "removeSoundboard" /\ calls[k].op = "removePlaylist")
                  => k < i
        /\ rem # {} =>
              /\ calls[1].op = "listPlaylists" /\ calls[1].status = "ok"
              /\ calls[2].op = "listSoundboards" /\ calls[2].status = "ok"
              /\ \A i \in rem : i > 2

\* C16: the removals of purge are serialized.  At most one is in flight;
\* every removePlaylist precedes every removeSoundboard; none is issued before
\* both listings have returned; a removal that returns is followed by the
\* delay, and a removal after the first is issued only when that delay has
\* elapsed, every earlier removal having returned.
C16_PurgeSerialized ==
    [][/\ PurgeSerialized'
       /\ (PurgeRemovalsIn(calls') # PurgeRemovalsIn(calls)) =>
             /\ Len(calls') = Len(calls) + 1
             /\ IF PurgeRemovalsIn(calls) = {}
                THEN pc = "listSoundboards"
                ELSE /\ pc \in {"delayPlaylist", "delaySoundboard"}
                     /\ \A i \in PurgeRemovalsIn(calls) : calls[i].status = "ok"
       /\ (pc \in {"removePlaylist", "removeSoundboard"} /\ pc' # "failed") =>
             pc' = (IF pc = "removePlaylist" THEN "delayPlaylist" ELSE "delaySoundboard")]_vars

\* A purge that listed two playlists and a soundboard has removed the two
\* playlists one after the other and awaits the removal of the soundboard.
C16_Witness ==
    /\ argv.action = "purge"
    /\ pc = "removeSoundboard"
    /\ Len(lists.playlists) = 2
    /\ Cardinality(PurgeRemovalsIn(calls)) = 3
    /\ calls[Len(calls)].op = "removeSoundboard"
    /\ calls[Len(calls)].status = "pending"

\* C17: the gate is monotonic.  It is written when watching starts, false
\* for watch and true for backfill, and by 'ready', which makes it true; no
\* other step changes it, and no step takes it from true to false, 'ready'
\* arriving with the gate already true included.
C17_GateMonotonic ==
    [][/\ ACTIVATED => ACTIVATED'
       /\ (pc = "start" /\ pc' = "watching") => (ACTIVATED' = IsBackfill)
       /\ (readyAt' # readyAt) => ACTIVATED'
       /\ (ACTIVATED' # ACTIVATED) => (pc = "start" \/ readyAt' # readyAt)]_vars

\* In a backfill run 'ready' has arrived with the gate already true, after an
\* event had been dequeued and dispatched, and the gate is true.
C17_Witness ==
    /\ IsBackfill
    /\ pc = "watching"
    /\ readyAt >= 1
    /\ ACTIVATED
    /\ \E j \in 1..Len(dequeued) :
          dequeued[j].event.id <= readyAt /\ CallsFor(dequeued[j].event.id) # {}
    /\ queue # <<>>

UnderSoundboards(path) ==
    OccursAt(path, Root \o Slash \o DEFAULT_SOUNDBOARDS_DIR \o Slash, 0)

PlaylistOps == {"addPlaylist", "removePlaylist", "addTrack", "removeTrack"}

SoundboardOps == {"addSoundboard", "removeSoundboard", "addSound", "removeSound"}

\* C18: with the directory names Playlists and Soundboards, every call for a
\* path under <root>/Soundboards/ is a soundboard or sound operation and
\* every call for a path under <root>/Playlists/ is a playlist or track
\* operation, whatever the collection and item names.
C18_BranchFollowsDirectory ==
    \A i \in WorkerCalls :
        LET path == delivered[calls[i].ev].path
        IN  /\ UnderSoundboards(path) => calls[i].op \in SoundboardOps
            /\ UnderPlaylists(path) => calls[i].op \in PlaylistOps

\* The directory that contains the item: the path up to its last '/'.
ParentDir(path) ==
    LET slashes == {i \in 1..Len(path) : path[i] = "/"}
    IN  SubSeq(path, 1, (CHOOSE i \in slashes : \A k \in slashes : k <= i) - 1)

\* The url sent by the add-playlist or add-soundboard call for a directory.
CollectionUrl(dir) == CaseAddDir(TRUE, Directories(argv), dir)[1].body.url

ItemParentUrl(call) ==
    IF call.op \in {"addTrack", "removeTrack"}
    THEN call.body.playlistUrl
    ELSE call.body.soundboardUrl

ItemCalls ==
    {i \in WorkerCalls :
        calls[i].op \in {"addTrack", "removeTrack", "addSound", "removeSound"}}

\* C19: the playlistUrl or soundboardUrl of every add-item and remove-item
\* call is the url that the add-playlist or add-soundboard call sends for the
\* directory containing the item.
C19_ItemAttachedToItsDirectory ==
    \A i \in ItemCalls :
        ItemParentUrl(calls[i]) = CollectionUrl(ParentDir(delivered[calls[i].ev].path))

====
